---- MODULE Spec2Model ----
(***************************************************************************)
(* bwdraw: a Canvas of DuoPixels (upper/lower half blocks) built from a    *)
(* matrix of booleans, with bounds-checked get / set / invert operations,  *)
(* parsing from text and serialisation to a block of glyphs.               *)
(*                                                                         *)
(* Vec<T> is a sequence (index i of the code is index i+1 here), usize is  *)
(* a natural number, char is its code point, Option<T> is a record with a  *)
(* field `some`.                                                           *)
(***************************************************************************)
EXTENDS Integers, Sequences, FiniteSets, TLC

VARIABLES pc, input, self, op, args, ret, old

vars == <<pc, input, self, op, args, ret, old>>

-----------------------------------------------------------------------------
(* Bounds of the model.                                                    *)

MaxWidth == 2

MaxHeight == 3

MaxTextLen == 4

-----------------------------------------------------------------------------
(* Glyphs (code points).                                                   *)

FULL_C == 9608

LOWER_C == 9604

UPPER_C == 9600

EMPTY_C == 32

NEWLINE == 10

CARRIAGE_RETURN == 13

-----------------------------------------------------------------------------
(* Option<T>.                                                              *)

Some(v) == [some |-> TRUE, val |-> v]

None == [some |-> FALSE]

Min(a, b) == IF a < b THEN a ELSE b

-----------------------------------------------------------------------------
(* DuoPixel.                                                               *)

DuoPixel == [upper : BOOLEAN, lower : BOOLEAN]

\* impl From<(bool, bool)> for DuoPixel
DuoPixelFrom(u, l) == [upper |-> u, lower |-> l]

\* mutant of DuoPixelIntoChar: the match reads (upper, lower)
DuoPixelIntoCharUpperFirst(p) ==
    CASE p.upper /\ p.lower -> FULL_C
      [] ~p.upper /\ p.lower -> UPPER_C
      [] p.upper /\ ~p.lower -> LOWER_C
      [] ~p.upper /\ ~p.lower -> EMPTY_C

\* impl Into<char> for DuoPixel: match (self.lower, self.upper)
DuoPixelIntoChar(p) ==
    CASE p.lower /\ p.upper -> FULL_C
      [] ~p.lower /\ p.upper -> UPPER_C
      [] p.lower /\ ~p.upper -> LOWER_C
      [] ~p.lower /\ ~p.upper -> EMPTY_C

-----------------------------------------------------------------------------
(* Row.                                                                    *)

\* mutant of RowFrom: the halves taken the other way round
RowFromSwapped(u, l) ==
    [i \in 1..Min(Len(u), Len(l)) |-> DuoPixelFrom(l[i], u[i])]

\* impl From<(Vec<bool>, Vec<bool>)> for Row: zip stops at the shorter one
RowFrom(u, l) ==
    [i \in 1..Min(Len(u), Len(l)) |-> DuoPixelFrom(u[i], l[i])]

\* impl Into<(Vec<bool>, Vec<bool>)> for Row: unzip
RowInto(row) ==
    << [i \in 1..Len(row) |-> row[i].upper],
       [i \in 1..Len(row) |-> row[i].lower] >>

\* impl Into<String> for Row
RowIntoString(row) == [i \in 1..Len(row) |-> DuoPixelIntoChar(row[i])]

-----------------------------------------------------------------------------
(* Canvas <-> Vec<Vec<bool>>.                                              *)

\* impl Into<Vec<Vec<bool>>> for Canvas: flat_map of vec![t.0, t.1]
CanvasInto(canvas) ==
    [k \in 1..(2 * Len(canvas)) |->
        IF k % 2 = 1 THEN RowInto(canvas[(k + 1) \div 2])[1]
                     ELSE RowInto(canvas[k \div 2])[2]]

\* mutant of Longed: the row appended is empty instead of as wide as row 0
LongedEmptyRow(value) ==
    IF Len(value) % 2 = 0 THEN value ELSE Append(value, <<>>)

\* the `longed` of From<Vec<Vec<bool>>>: an odd matrix gets a row of falses
\* as wide as row 0
Longed(value) ==
    IF Len(value) % 2 = 0
    THEN value
    ELSE LET inner_len == IF Len(value) > 0 THEN Len(value[1]) ELSE 0
             falses_vec == [i \in 1..inner_len |-> FALSE]
         IN  Append(value, falses_vec)

\* impl From<Vec<Vec<bool>>> for Canvas: chunks(2) of longed, Row::from each
CanvasFrom(value) ==
    LET longed == Longed(value)
    IN  [i \in 1..(Len(longed) \div 2) |->
            RowFrom(longed[2 * i - 1], longed[2 * i])]

\* Canvas::new
new(width, height) ==
    CanvasFrom([i \in 1..height |-> [j \in 1..width |-> FALSE]])

\* impl PartialEq for Canvas / Row / DuoPixel: structural equality
CanvasEq(a, b) ==
    /\ Len(a) = Len(b)
    /\ \A i \in 1..Len(a) :
          /\ Len(a[i]) = Len(b[i])
          /\ \A j \in 1..Len(a[i]) :
                a[i][j].upper = b[i][j].upper /\ a[i][j].lower = b[i][j].lower

-----------------------------------------------------------------------------
(* Canvas: queries and mutations.  A mutating method is the record of the  *)
(* receiver after the call (`self`) and of the value returned (`ret`).     *)

\* mutant of mut_set_duopixel: y is taken as a logical row (row y div 2)
mut_set_duopixel_logical(canvas, x, y, pixel) ==
    IF (y \div 2) < Len(canvas) /\ x < Len(canvas[(y \div 2) + 1])
    THEN [self |-> [canvas EXCEPT ![(y \div 2) + 1][x + 1] = pixel],
          ret  |-> Some(canvas[(y \div 2) + 1][x + 1])]
    ELSE [self |-> canvas, ret |-> None]

\* Canvas::mut_set_duopixel: self.0.get_mut(y)?.0.get_mut(x)?
mut_set_duopixel(canvas, x, y, pixel) ==
    IF y < Len(canvas) /\ x < Len(canvas[y + 1])
    THEN [self |-> [canvas EXCEPT ![y + 1][x + 1] = pixel],
          ret  |-> Some(canvas[y + 1][x + 1])]
    ELSE [self |-> canvas, ret |-> None]

\* Canvas::get_duopixel: self.0.get(y)?.0.get(x)?
get_duopixel(canvas, x, y) ==
    IF y < Len(canvas) /\ x < Len(canvas[y + 1])
    THEN Some(canvas[y + 1][x + 1])
    ELSE None

\* mutant of invert_pixel: the pixel is switched on instead of negated
invert_pixel_switch_on(canvas, x, y) ==
    LET subpixeled == CanvasInto(canvas)
    IN  IF y < Len(subpixeled) /\ x < Len(subpixeled[y + 1])
        THEN Some(CanvasFrom([subpixeled EXCEPT ![y + 1][x + 1] = TRUE]))
        ELSE None

\* Canvas::invert_pixel
invert_pixel(canvas, x, y) ==
    LET subpixeled == CanvasInto(canvas)
    IN  IF y < Len(subpixeled) /\ x < Len(subpixeled[y + 1])
        THEN Some(CanvasFrom([subpixeled EXCEPT
                                ![y + 1][x + 1] = ~subpixeled[y + 1][x + 1]]))
        ELSE None

\* Canvas::mut_invert_pixel
mut_invert_pixel(canvas, x, y) ==
    LET subpixeled == CanvasInto(canvas)
    IN  IF y < Len(subpixeled) /\ x < Len(subpixeled[y + 1])
        THEN LET new_pic == CanvasFrom([subpixeled EXCEPT
                                ![y + 1][x + 1] = ~subpixeled[y + 1][x + 1]])
             IN  [self |-> new_pic, ret |-> Some(new_pic)]
        ELSE [self |-> canvas, ret |-> None]

\* Canvas::set
set(canvas, x, y, state) ==
    LET subpixeled == CanvasInto(canvas)
    IN  IF y < Len(subpixeled) /\ x < Len(subpixeled[y + 1])
        THEN Some(CanvasFrom([subpixeled EXCEPT ![y + 1][x + 1] = state]))
        ELSE None

\* mutant of mut_set: the new Canvas is returned but not stored in *self
mut_set_unsaved(canvas, x, y, state) ==
    LET subpixeled == CanvasInto(canvas)
    IN  IF y < Len(subpixeled) /\ x < Len(subpixeled[y + 1])
        THEN [self |-> canvas,
              ret  |-> Some(CanvasFrom([subpixeled EXCEPT
                                            ![y + 1][x + 1] = state]))]
        ELSE [self |-> canvas, ret |-> None]

\* Canvas::mut_set
mut_set(canvas, x, y, state) ==
    LET subpixeled == CanvasInto(canvas)
    IN  IF y < Len(subpixeled) /\ x < Len(subpixeled[y + 1])
        THEN LET new_pic == CanvasFrom([subpixeled EXCEPT
                                            ![y + 1][x + 1] = state])
             IN  [self |-> new_pic, ret |-> Some(new_pic)]
        ELSE [self |-> canvas, ret |-> None]

\* Canvas::get
get(canvas, x, y) ==
    LET subpixeled == CanvasInto(canvas)
    IN  IF y < Len(subpixeled) /\ x < Len(subpixeled[y + 1])
        THEN Some(subpixeled[y + 1][x + 1])
        ELSE None

\* mutant of inverted: only the upper halves are negated
inverted_upper_only(canvas) ==
    LET subpixeled == CanvasInto(canvas)
        inv == [r \in 1..Len(subpixeled) |->
                   [p \in 1..Len(subpixeled[r]) |->
                       IF r % 2 = 1 THEN ~subpixeled[r][p]
                                    ELSE subpixeled[r][p]]]
    IN  CanvasFrom(inv)

\* Canvas::inverted
inverted(canvas) ==
    LET subpixeled == CanvasInto(canvas)
        inv == [r \in 1..Len(subpixeled) |->
                   [p \in 1..Len(subpixeled[r]) |-> ~subpixeled[r][p]]]
    IN  CanvasFrom(inv)

\* Canvas::invert (in place, returns nothing)
invert(canvas) ==
    LET subpixeled == CanvasInto(canvas)
        inv == [r \in 1..Len(subpixeled) |->
                   [p \in 1..Len(subpixeled[r]) |-> ~subpixeled[r][p]]]
    IN  [self |-> CanvasFrom(inv)]

\* impl Into<String> for Canvas / impl ToString for Canvas:
\* every row's glyphs followed by "\n", concatenated
RECURSIVE CanvasIntoString(_)
CanvasIntoString(canvas) ==
    IF canvas = <<>>
    THEN <<>>
    ELSE (RowIntoString(Head(canvas)) \o <<NEWLINE>>)
             \o CanvasIntoString(Tail(canvas))

to_string(canvas) == CanvasIntoString(canvas)

-----------------------------------------------------------------------------
(* Canvas::parse.                                                          *)

\* mutant of ParseChar: `inactive` is looked at before `active`
ParseCharInactiveFirst(c, active, inactive) ==
    IF c = inactive THEN FALSE
    ELSE IF c = active THEN TRUE
    ELSE TRUE

\* the closure of parse applied to each char
ParseChar(c, active, inactive) ==
    IF c = active THEN TRUE
    ELSE IF c = inactive THEN FALSE
    ELSE TRUE

\* str::lines as called by parse: split after each "\n"; a line loses its
\* final "\n" and then a "\r" before it; no line follows a final "\n"
RECURSIVE SplitInclusive(_)
SplitInclusive(s) ==
    IF s = <<>>
    THEN <<>>
    ELSE LET ends == {i \in 1..Len(s) : s[i] = NEWLINE}
             n == IF ends = {} THEN Len(s)
                  ELSE CHOOSE i \in ends : \A j \in ends : i <= j
         IN  <<SubSeq(s, 1, n)>> \o SplitInclusive(SubSeq(s, n + 1, Len(s)))

StripLine(line) ==
    IF line # <<>> /\ line[Len(line)] = NEWLINE
    THEN LET l == SubSeq(line, 1, Len(line) - 1)
         IN  IF l # <<>> /\ l[Len(l)] = CARRIAGE_RETURN
             THEN SubSeq(l, 1, Len(l) - 1)
             ELSE l
    ELSE line

Lines(str_pic) ==
    LET parts == SplitInclusive(str_pic)
    IN  [k \in 1..Len(parts) |-> StripLine(parts[k])]

\* Canvas::parse
parse(str_pic, active, inactive) ==
    LET lines == Lines(str_pic)
    IN  CanvasFrom([k \in 1..Len(lines) |->
                       [j \in 1..Len(lines[k]) |->
                           ParseChar(lines[k][j], active, inactive)]])

-----------------------------------------------------------------------------
(* Inputs.                                                                 *)

Widths == 0..MaxWidth

Heights == 0..MaxHeight

\* coordinates handed to the methods: one column and two rows past the bounds
Xs == 0..MaxWidth

Ys == 0..(MaxHeight + 1)

\* '#', '.', 'x'
PrintableChars == {35, 46, 120}

Chars == PrintableChars \cup {NEWLINE, CARRIAGE_RETURN}

BoolRows == UNION {[1..w -> BOOLEAN] : w \in Widths}

\* matrices whose rows all have one width
UniformMatrices ==
    UNION {[1..h -> [1..w -> BOOLEAN]] : w \in Widths, h \in Heights}

\* matrices of rows of any widths
Matrices == UNION {[1..h -> BoolRows] : h \in Heights}

Texts == UNION {[1..n -> Chars] : n \in 0..MaxTextLen}

NewInputs ==
    {[ctor |-> "new", width |-> w, height |-> h] : w \in Widths, h \in Heights}

FromInputs(ms) == {[ctor |-> "from", value |-> m] : m \in ms}

ParseInputs ==
    {[ctor |-> "parse", str_pic |-> t, active |-> a, inactive |-> i] :
        t \in Texts, a \in PrintableChars, i \in PrintableChars}

\* before the constructor ran: its arguments are chosen, nothing is built
Start(inputs) ==
    /\ pc = "start"
    /\ input \in inputs
    /\ self = <<>>
    /\ op = "none"
    /\ args = <<>>
    /\ ret = <<>>
    /\ old = <<>>

-----------------------------------------------------------------------------
(* Constructors.                                                           *)

Construct(name, canvas) ==
    /\ pc = "start"
    /\ input.ctor = name
    /\ self' = canvas
    /\ pc' = "idle"
    /\ op' = name
    /\ UNCHANGED <<input, args, ret, old>>

CallNew == Construct("new", new(input.width, input.height))

CallFrom == Construct("from", CanvasFrom(input.value))

CallParse ==
    Construct("parse", parse(input.str_pic, input.active, input.inactive))

-----------------------------------------------------------------------------
(* Method calls on the Canvas `self`; `old` is the receiver before the     *)
(* call, `ret` the value returned.                                         *)

\* a method taking &self
Query(name, a, r) ==
    /\ pc = "idle"
    /\ pc' = "called"
    /\ op' = name
    /\ args' = a
    /\ ret' = r
    /\ old' = self
    /\ UNCHANGED <<self, input>>

\* what is remembered of the constructor's arguments once the Canvas has been
\* written to: the constructor, and the dimensions asked of `new`
Kept(i) == IF i.ctor = "new" THEN i ELSE [ctor |-> i.ctor]

\* a method taking &mut self
Mutation(name, a, res) ==
    /\ pc = "idle"
    /\ pc' = "called"
    /\ op' = name
    /\ args' = a
    /\ ret' = res.ret
    /\ old' = self
    /\ self' = res.self
    /\ input' = Kept(input)

CallGet ==
    \E x \in Xs, y \in Ys :
        Query("get", [x |-> x, y |-> y], get(self, x, y))

CallSet ==
    \E x \in Xs, y \in Ys, state \in BOOLEAN :
        Query("set", [x |-> x, y |-> y, state |-> state],
              set(self, x, y, state))

CallMutSet ==
    \E x \in Xs, y \in Ys, state \in BOOLEAN :
        Mutation("mut_set", [x |-> x, y |-> y, state |-> state],
                 mut_set(self, x, y, state))

CallGetDuopixel ==
    \E x \in Xs, y \in Ys :
        Query("get_duopixel", [x |-> x, y |-> y], get_duopixel(self, x, y))

CallMutSetDuopixel ==
    \E x \in Xs, y \in Ys, pixel \in DuoPixel :
        Mutation("mut_set_duopixel", [x |-> x, y |-> y, pixel |-> pixel],
                 mut_set_duopixel(self, x, y, pixel))

CallInvertPixel ==
    \E x \in Xs, y \in Ys :
        Query("invert_pixel", [x |-> x, y |-> y], invert_pixel(self, x, y))

CallMutInvertPixel ==
    \E x \in Xs, y \in Ys :
        Mutation("mut_invert_pixel", [x |-> x, y |-> y],
                 mut_invert_pixel(self, x, y))

CallInverted == Query("inverted", <<>>, inverted(self))

CallInvert ==
    Mutation("invert", <<>>, [self |-> invert(self).self, ret |-> <<>>])

CallToString == Query("to_string", <<>>, to_string(self))

\* the conversion Canvas -> Vec<Vec<bool>>
CallInto == Query("into", <<>>, CanvasInto(self))

\* the caller is done with the returned value and goes on with the Canvas
Return ==
    /\ pc = "called"
    /\ pc' = "idle"
    /\ op' = "none"
    /\ args' = <<>>
    /\ ret' = <<>>
    /\ old' = <<>>
    /\ UNCHANGED <<self, input>>

-----------------------------------------------------------------------------
(* Specifications.                                                         *)

\* every constructor, every method
Init == Start(NewInputs \cup FromInputs(Matrices) \cup ParseInputs)

Next ==
    \/ CallNew
    \/ CallFrom
    \/ CallParse
    \/ CallGet
    \/ CallSet
    \/ CallMutSet
    \/ CallGetDuopixel
    \/ CallMutSetDuopixel
    \/ CallInvertPixel
    \/ CallMutInvertPixel
    \/ CallInverted
    \/ CallInvert
    \/ CallToString
    \/ CallInto
    \/ Return

Spec == Init /\ [][Next]_vars

\* Canvas::new, then get / set / mut_set
InitNew == Start(NewInputs)

NextNew == CallNew \/ CallGet \/ CallSet \/ CallMutSet \/ Return

SpecNew == InitNew /\ [][NextNew]_vars

\* Vec<Vec<bool>> -> Canvas -> Vec<Vec<bool>>
InitMatrix == Start(FromInputs(UniformMatrices))

NextMatrix == CallFrom \/ CallInto \/ Return

SpecMatrix == InitMatrix /\ [][NextMatrix]_vars

\* set / mut_set on a Canvas built from a matrix
NextSet == CallFrom \/ CallSet \/ CallMutSet \/ Return

SpecSet == InitMatrix /\ [][NextSet]_vars

\* get_duopixel / mut_set_duopixel
NextDuopixel == CallFrom \/ CallGetDuopixel \/ CallMutSetDuopixel \/ Return

SpecDuopixel == InitMatrix /\ [][NextDuopixel]_vars

\* invert / inverted
NextInvert == CallFrom \/ CallInverted \/ CallInvert \/ Return

SpecInvert == InitMatrix /\ [][NextInvert]_vars

\* invert_pixel / mut_invert_pixel
NextInvertPixel == CallFrom \/ CallInvertPixel \/ CallMutInvertPixel \/ Return

SpecInvertPixel == InitMatrix /\ [][NextInvertPixel]_vars

\* to_string of a Canvas built from a matrix and drawn on with mut_set
NextString == CallFrom \/ CallMutSet \/ CallToString \/ Return

SpecString == InitMatrix /\ [][NextString]_vars

\* Canvas::parse
InitParse == Start(ParseInputs)

NextParse == CallParse \/ CallInto \/ Return

SpecParse == InitParse /\ [][NextParse]_vars

-----------------------------------------------------------------------------
(* The logical grid a Canvas stores, read off the DuoPixels directly:      *)
(* logical row y lives in physical row y div 2, as the upper halves when y *)
(* is even and the lower halves when y is odd.                             *)

InBounds(canvas, x, y) ==
    /\ y < 2 * Len(canvas)
    /\ x < Len(canvas[(y \div 2) + 1])

Pixel(canvas, x, y) ==
    IF y % 2 = 0 THEN canvas[(y \div 2) + 1][x + 1].upper
                 ELSE canvas[(y \div 2) + 1][x + 1].lower

SameShape(a, b) ==
    /\ Len(a) = Len(b)
    /\ \A i \in 1..Len(a) : Len(a[i]) = Len(b[i])

Rectangular(canvas) ==
    \A i, j \in 1..Len(canvas) : Len(canvas[i]) = Len(canvas[j])

Called(names) == pc = "called" /\ op \in names

-----------------------------------------------------------------------------
(* Claims.                                                                 *)

\* C1: on a Canvas built by new(width, height), get, set and mut_set return
\* a value exactly when x < width and y < height, and a set that returns
\* nothing leaves the Canvas as it was.
C1_BoundsOfNew ==
    Called({"get", "set", "mut_set"}) =>
        /\ ret.some <=> (args.x < input.width /\ args.y < input.height)
        /\ ~ret.some => CanvasEq(self, old)

\* C2: a matrix with an even number of rows of one width, converted to a
\* Canvas and back, is the matrix again; physical row i holds logical row 2i
\* as the upper halves and logical row 2i+1 as the lower halves.
C2_RoundTrip ==
    (Called({"into"}) /\ Len(input.value) % 2 = 0) =>
        LET m == input.value
        IN  /\ ret = m
            /\ Len(self) * 2 = Len(m)
            /\ \A i \in 1..Len(self) :
                  /\ Len(self[i]) = Len(m[2 * i - 1])
                  /\ \A j \in 1..Len(self[i]) :
                        /\ self[i][j].upper = m[2 * i - 1][j]
                        /\ self[i][j].lower = m[2 * i][j]

C2_Witness ==
    /\ Called({"into"})
    /\ Len(input.value) = 2
    /\ Len(input.value[1]) = 2
    /\ input.value[1][1] /\ ~input.value[2][1]
    /\ ~input.value[1][2] /\ input.value[2][2]

\* C3: a matrix with an odd number of rows of one width gives the Canvas of
\* the matrix with one all-false row appended: (rows + 1) / 2 physical rows,
\* the last of which has every lower half off and the matrix's last row as
\* its upper halves.
C3_OddRowPadding ==
    (pc = "idle" /\ op = "from" /\ Len(input.value) % 2 = 1) =>
        LET m == input.value
            n == Len(m)
            padded == Append(m, [j \in 1..Len(m[1]) |-> FALSE])
            last == self[Len(self)]
        IN  /\ CanvasEq(self, CanvasFrom(padded))
            /\ Len(self) = (n + 1) \div 2
            /\ Len(last) = Len(m[n])
            /\ \A j \in 1..Len(last) :
                  ~last[j].lower /\ last[j].upper = m[n][j]
            /\ CanvasInto(self) = padded

C3_Witness ==
    /\ pc = "idle" /\ op = "from"
    /\ Len(input.value) = 3
    /\ Len(input.value[3]) = 2
    /\ input.value[3][1] /\ ~input.value[3][2]
    /\ input.value[2][2]

C5_LogicalCoordinates ==
    Called({"get_duopixel", "mut_set_duopixel"}) =>
        /\ ret.some <=> InBounds(old, args.x, args.y)
        /\ ret.some => ret.val = old[(args.y \div 2) + 1][args.x + 1]

\* C5 as amended: get_duopixel and mut_set_duopixel take physical
\* coordinates; they address the DuoPixel of physical row y, column x, and
\* return a value exactly when y is less than the number of physical rows
\* and x less than that row's length; mut_set_duopixel returns the DuoPixel
\* that was there, stores the new one and changes no other DuoPixel; a call
\* that returns nothing changes nothing.
C5_PhysicalCoordinates ==
    Called({"get_duopixel", "mut_set_duopixel"}) =>
        LET inside == args.y < Len(old) /\ args.x < Len(old[args.y + 1])
        IN  /\ ret.some <=> inside
            /\ ret.some => ret.val = old[args.y + 1][args.x + 1]
            /\ SameShape(self, old)
            /\ \A i \in 1..Len(old) : \A j \in 1..Len(old[i]) :
                  self[i][j] =
                      IF /\ op = "mut_set_duopixel"
                         /\ i = args.y + 1
                         /\ j = args.x + 1
                      THEN args.pixel
                      ELSE old[i][j]

C5_Witness ==
    /\ Called({"mut_set_duopixel"})
    /\ ret.some
    /\ args.x = 1 /\ args.y = 1
    /\ args.pixel = [upper |-> TRUE, lower |-> FALSE]
    /\ ret.val = [upper |-> FALSE, lower |-> TRUE]
    /\ old[1][1].upper

\* C6: every Canvas that a constructor builds, and every Canvas the methods
\* make of it, has rows of one length.
C6_Rectangular == pc # "start" => Rectangular(self)

\* C7: inverted and invert negate every logical pixel and keep the shape;
\* inverting twice gives a Canvas equal to the first; invert leaves the
\* receiver equal to what inverted returns.
C7_Invert ==
    Called({"inverted", "invert"}) =>
        LET g == IF op = "inverted" THEN ret ELSE self
        IN  /\ SameShape(g, old)
            /\ \A x \in Xs, y \in Ys :
                  InBounds(old, x, y) =>
                      /\ get(g, x, y) = Some(~get(old, x, y).val)
                      /\ Pixel(g, x, y) = ~Pixel(old, x, y)
            /\ CanvasEq(inverted(g), old)
            /\ CanvasEq(g, inverted(old))
            /\ op = "inverted" => CanvasEq(self, old)

C7_Witness ==
    /\ Called({"inverted"})
    /\ input.ctor = "from" /\ Len(input.value) = 3
    /\ Len(old) = 2 /\ Len(old[2]) = 2
    /\ old[2][1].upper /\ ~old[2][2].upper
    /\ ret[2][1].lower /\ ret[2][2].upper

\* C8: invert_pixel and mut_invert_pixel at a coordinate inside the
\* Canvas's logical grid (2 * physical rows by row length) negate that
\* pixel and no other, and applied again give a Canvas equal to the first;
\* at a coordinate outside they return nothing and the Canvas is as before.
C8_InvertPixel ==
    Called({"invert_pixel", "mut_invert_pixel"}) =>
        IF InBounds(old, args.x, args.y)
        THEN /\ ret.some
             /\ SameShape(ret.val, old)
             /\ get(ret.val, args.x, args.y)
                    = Some(~get(old, args.x, args.y).val)
             /\ Pixel(ret.val, args.x, args.y) = ~Pixel(old, args.x, args.y)
             /\ \A x \in Xs, y \in Ys :
                   (x # args.x \/ y # args.y) =>
                       get(ret.val, x, y) = get(old, x, y)
             /\ LET again == invert_pixel(ret.val, args.x, args.y)
                IN  again.some /\ CanvasEq(again.val, old)
             /\ LET again == mut_invert_pixel(ret.val, args.x, args.y)
                IN  again.ret.some /\ CanvasEq(again.self, old)
             /\ op = "invert_pixel" => CanvasEq(self, old)
             /\ op = "mut_invert_pixel" => CanvasEq(self, ret.val)
        ELSE /\ ~ret.some
             /\ CanvasEq(self, old)

C8_Witness ==
    /\ Called({"mut_invert_pixel"})
    /\ ret.some
    /\ args.x = 1 /\ args.y = 2
    /\ Len(old) = 2 /\ Len(old[2]) = 2
    /\ old[2][2].upper /\ old[2][1].upper /\ old[1][2].lower

\* C9: to_string is, row after row, the glyphs of the row's DuoPixels
\* ((true,true) -> 0x2588, (true,false) -> 0x2580, (false,true) -> 0x2584,
\* (false,false) -> ' ') followed by one newline; the four glyphs differ;
\* a Canvas without rows gives the empty string.
C9_ToString ==
    Called({"to_string"}) =>
        LET w == IF Len(old) = 0 THEN 0 ELSE Len(old[1])
            Glyph(u, l) == CASE u /\ l -> 9608
                             [] u /\ ~l -> 9600
                             [] ~u /\ l -> 9604
                             [] ~u /\ ~l -> 32
        IN  /\ Len(ret) = Len(old) * (w + 1)
            /\ \A i \in 1..Len(old) :
                  /\ ret[i * (w + 1)] = 10
                  /\ \A j \in 1..w :
                        ret[(i - 1) * (w + 1) + j]
                            = Glyph(old[i][j].upper, old[i][j].lower)
            /\ Len(old) = 0 => ret = <<>>
            /\ Cardinality({DuoPixelIntoChar(p) : p \in DuoPixel}) = 4

C9_Witness ==
    /\ Called({"to_string"})
    /\ Len(old) = 2 /\ Len(old[1]) = 2
    /\ old[1][1] = [upper |-> TRUE, lower |-> TRUE]
    /\ old[1][2] = [upper |-> TRUE, lower |-> FALSE]
    /\ old[2][1] = [upper |-> FALSE, lower |-> TRUE]
    /\ old[2][2] = [upper |-> FALSE, lower |-> FALSE]

\* C10: parse builds the Canvas of the matrix with one row per line of the
\* text, whose cell is false exactly when the character is `inactive` and
\* is not `active`.
C10_Parse ==
    (pc = "idle" /\ op = "parse") =>
        LET lines == Lines(input.str_pic)
            cell(c) == ~(c = input.inactive /\ c # input.active)
            m == [k \in 1..Len(lines) |->
                     [j \in 1..Len(lines[k]) |-> cell(lines[k][j])]]
        IN  /\ CanvasEq(self, CanvasFrom(m))
            /\ Len(self) = (Len(lines) + 1) \div 2
            /\ \A k \in 1..Len(lines) :
                  \A j \in 1..Len(self[(k + 1) \div 2]) :
                      Pixel(self, j - 1, k - 1) = cell(lines[k][j])

C10_Witness ==
    /\ pc = "idle" /\ op = "parse"
    /\ input.active = 35 /\ input.inactive = 46
    /\ input.str_pic = <<46, 10, 120, 35>>

====
